---- MODULE Spec2Model ----
(***************************************************************************)
(* Model of the /auth callback of the authentication proxy: the ADFS       *)
(* adapter (GetUserInfoFromADFS), the handlers CallbackHandler and         *)
(* AuthStateHandler, the authorization engine verifyUser, and the routes   *)
(* main registers.                                                         *)
(*                                                                         *)
(* Text that the code inspects character by character (usernames, emails,  *)
(* UPNs, domains) is a sequence of one-character strings; text the code    *)
(* only compares or passes on (state nonces, URLs, team names) is a string.*)
(***************************************************************************)
EXTENDS Integers, Sequences, FiniteSets, TLC

\* ------------------------------------------------------------------ bounds
\* Longest generated username / email / UPN.
MaxLen == 3
\* Longest WhiteList drawn.
MaxWL == 2
\* Longest TeamWhiteList / TeamMemberships drawn.
MaxTeams == 2
\* Requests a behaviour of Spec holds (in flight or finished).
MaxReq == 1
\* Requests a behaviour of SpecReplay holds: a callback and its repetition.
MaxReplay == 2
\* /login calls (each draws a fresh state nonce).
MaxLogins == 1

\* ------------------------------------------------------------------ text
Alphabet == {"a", "A", "@", "."}

Strings(n) == UNION {[1..k -> Alphabet] : k \in 0..n}

EmptyString == << >>

LowerLetters == <<"a","b","c","d","e","f","g","h","i","j","k","l","m",
                  "n","o","p","q","r","s","t","u","v","w","x","y","z">>
UpperLetters == <<"A","B","C","D","E","F","G","H","I","J","K","L","M",
                  "N","O","P","Q","R","S","T","U","V","W","X","Y","Z">>
Digits == {"0","1","2","3","4","5","6","7","8","9"}

Range(s) == {s[i] : i \in DOMAIN s}

\* [a-zA-Z0-9]
IsAlnum(c) == c \in Range(LowerLetters) \cup Range(UpperLetters) \cup Digits

\* the character class of the local part: letters, digits and the listed marks
\* (the class also holds the backquote, which a TLA+ string cannot hold; no
\* text drawn below contains it)
IsLocalChar(c) ==
    \/ IsAlnum(c)
    \/ c \in {".","!","#","$","%","&","'","*","+","/","=","?","^","_",
              "{","|","}","~","-"}

\* strings.ToLower on one character
ToLowerChar(c) ==
    IF \E i \in DOMAIN UpperLetters : UpperLetters[i] = c
    THEN LowerLetters[CHOOSE i \in DOMAIN UpperLetters : UpperLetters[i] = c]
    ELSE c

\* strings.ToLower
ToLower(s) == [i \in 1..Len(s) |-> ToLowerChar(s[i])]

\* strings.HasSuffix
HasSuffix(s, suffix) ==
    /\ Len(suffix) <= Len(s)
    /\ SubSeq(s, Len(s) - Len(suffix) + 1, Len(s)) = suffix

\* Longest inner run of a label: {0,61} between its first and last character.
LabelInnerMax == 61

\* one label: alnum, then optionally up to 61 of alnum or hyphen and an alnum
IsLabel(s) ==
    /\ Len(s) >= 1
    /\ IsAlnum(s[1])
    /\ IsAlnum(s[Len(s)])
    /\ Len(s) - 2 <= LabelInnerMax
    /\ \A i \in 1..Len(s) : IsAlnum(s[i]) \/ s[i] = "-"

\* labels separated by dots: the text from position i on, read label by label
RECURSIVE IsDomainFrom(_, _)
IsDomainFrom(s, i) ==
    IF i > Len(s) THEN FALSE
    ELSE LET dots == {j \in i..Len(s) : s[j] = "."}
         IN  IF dots = {}
             THEN IsLabel(SubSeq(s, i, Len(s)))
             ELSE LET d == CHOOSE j \in dots : \A k \in dots : j <= k
                  IN  /\ IsLabel(SubSeq(s, i, d - 1))
                      /\ IsDomainFrom(s, d + 1)

\* emailRegex.MatchString / rxEmail.MatchString (anchored at both ends):
\* one or more local characters, an at sign, dot-separated labels
emailRegexMatch(e) ==
    \E at \in 1..Len(e) :
        /\ e[at] = "@"
        /\ at > 1
        /\ \A j \in 1..(at - 1) : IsLocalChar(e[j])
        /\ IsDomainFrom(e, at + 1)

EmailMinLen == 3
EmailMaxLen == 254

isEmailValid(e) ==
    IF Len(e) < EmailMinLen \/ Len(e) > EmailMaxLen
    THEN FALSE
    ELSE emailRegexMatch(e)

\* ------------------------------------------------------------------ state
VARIABLES
    cfg,      \* cfg.Cfg and cfg.GenOAuth: set at startup, read-only afterwards
    session,  \* the store behind sessstore: the browser's pre-auth session
    logins,   \* number of /login calls served (each drew a fresh state)
    req,      \* the requests: each one's input, position and response
    arg,      \* input of a direct call of verifyUser or GetUserInfoFromADFS
    ret       \* result of that call

vars == <<cfg, session, logins, req, arg, ret>>

\* structs.User as the code reads it
NewUser == [Username |-> EmptyString, Email |-> EmptyString,
            TeamMemberships |-> << >>]

NoErr == [mode |-> "", text |-> << >>]

\* ------------------------------------------------------------------ authorization

\* domains.IsUnderManagement(email): split at the at sign; the domain part
\* equals a managed domain or ends with a dot and that domain, letter case
\* ignored.
IsUnderManagement(email, c) ==
    LET ats == {i \in 1..Len(email) : email[i] = "@"}
    IN  /\ Cardinality(ats) = 1
        /\ LET at  == CHOOSE i \in ats : TRUE
               dom == ToLower(SubSeq(email, at + 1, Len(email)))
           IN  \E i \in DOMAIN c.Domains :
                   \/ dom = ToLower(c.Domains[i])
                   \/ HasSuffix(dom, <<".">> \o ToLower(c.Domains[i]))

\* for _, caseInsensitiveDomain := range cfg.Cfg.CaseInsensitiveEmailDomains
RECURSIVE caseInsensitiveDomainLoop(_, _, _)
caseInsensitiveDomainLoop(lowerUsername, c, i) ==
    IF i > Len(c.CaseInsensitiveEmailDomains) THEN FALSE
    ELSE IF HasSuffix(lowerUsername,
                      <<"@">> \o ToLower(c.CaseInsensitiveEmailDomains[i]))
         THEN TRUE
         ELSE caseInsensitiveDomainLoop(lowerUsername, c, i + 1)

isUsernameCaseInsensitive(user, c) ==
    IF c.CaseInsensitiveEmails THEN TRUE
    ELSE caseInsensitiveDomainLoop(ToLower(user.Username), c, 1)

\* whiteListEntryMatches without the isEmailValid test
whiteListEntryMatches_AnyUsername(user, wl, usernameIsCaseInsensitive) ==
    \/ user.Username = wl
    \/ /\ usernameIsCaseInsensitive
       /\ ToLower(user.Username) = ToLower(wl)

\* the condition of the if inside the WhiteList loop
whiteListEntryMatches(user, wl, usernameIsCaseInsensitive) ==
    \/ user.Username = wl
    \/ /\ isEmailValid(user.Username)
       /\ usernameIsCaseInsensitive
       /\ ToLower(user.Username) = ToLower(wl)

\* for _, wl := range cfg.Cfg.WhiteList
RECURSIVE whiteListLoop(_, _, _, _)
whiteListLoop(user, c, usernameIsCaseInsensitive, i) ==
    IF i > Len(c.WhiteList) THEN FALSE
    ELSE IF whiteListEntryMatches(user, c.WhiteList[i], usernameIsCaseInsensitive)
         THEN TRUE
         ELSE whiteListLoop(user, c, usernameIsCaseInsensitive, i + 1)

\* for _, team := range user.TeamMemberships { for _, wl := range TeamWhiteList
RECURSIVE teamLoop(_, _, _, _)
teamLoop(user, c, i, j) ==
    IF i > Len(user.TeamMemberships) THEN FALSE
    ELSE IF j > Len(c.TeamWhiteList) THEN teamLoop(user, c, i + 1, 1)
    ELSE IF user.TeamMemberships[i] = c.TeamWhiteList[j] THEN TRUE
    ELSE teamLoop(user, c, i, j + 1)

Allowed == [ok |-> TRUE, err |-> NoErr]
Denied(mode, text) == [ok |-> FALSE, err |-> [mode |-> mode, text |-> text]]

\* cfg.Branding.FullName, printed in the Domains message
BrandingFullName == "Vouch Proxy"

\* the cases of the switch, each the decision of one rule
whiteListCase(user, c) ==
    IF whiteListLoop(user, c, isUsernameCaseInsensitive(user, c), 1)
    THEN Allowed
    ELSE Denied("WhiteList", <<user.Username>>)

teamWhiteListCase(user, c) ==
    IF teamLoop(user, c, 1, 1)
    THEN Allowed
    ELSE Denied("TeamWhiteList",
                <<user.TeamMemberships, c.TeamWhiteList, user.Username>>)

domainsCase(user, c) ==
    IF IsUnderManagement(user.Email, c)
    THEN Allowed
    ELSE Denied("Domains", <<user.Email, BrandingFullName>>)

\* verifyUser with the WhiteList and TeamWhiteList cases in the other order
verifyUser_TeamFirst(user, c) ==
    IF c.AllowAllUsers THEN Allowed
    ELSE IF Len(c.TeamWhiteList) # 0 THEN teamWhiteListCase(user, c)
    ELSE IF Len(c.WhiteList) # 0 THEN whiteListCase(user, c)
    ELSE IF Len(c.Domains) # 0 THEN domainsCase(user, c)
    ELSE Allowed

verifyUser(user, c) ==
    IF c.AllowAllUsers THEN Allowed
    ELSE IF Len(c.WhiteList) # 0 THEN whiteListCase(user, c)
    ELSE IF Len(c.TeamWhiteList) # 0 THEN teamWhiteListCase(user, c)
    ELSE IF Len(c.Domains) # 0 THEN domainsCase(user, c)
    ELSE Allowed

\* ------------------------------------------------------------------ ADFS adapter
\* What the token endpoint does with one POST. net: whether client.Do got a
\* response at all; status: its HTTP status; bodyJSON: whether the body
\* unmarshals into adfsTokenRes; id_token: the token as strings.Split(".")
\* cuts it (one part for a token without a dot, the empty token included);
\* closeErr: whether Body.Close fails.
\* A part of an id_token: b64 says whether base64.RawURLEncoding decodes it,
\* json whether the decoded bytes are a JSON object, claims what it holds.
NoClaims == [email |-> EmptyString, upn |-> EmptyString]

Part(b64, json, claims) == [b64 |-> b64, json |-> json, claims |-> claims]

OpaquePart == Part(TRUE, TRUE, NoClaims)

NoPTokens == [PAccessToken |-> "", PIdToken |-> << >>]

NoExchange == [net |-> "none", status |-> 0, bodyJSON |-> FALSE,
               access_token |-> "", id_token |-> << >>, closeErr |-> FALSE]

\* json.Unmarshal(idToken, &adfsUser): the fields of a JSON payload, nothing
\* of one that is not JSON (the error is dropped)
UnmarshalADFSUser(part) == IF part.json THEN part.claims ELSE NoClaims

\* common.MapClaims: fails when the payload is not JSON
MapClaimsFails(part) == ~part.json

\* ADFSUser.PrepareUserData: the username is the UPN
PrepareUserData(adfsUser) ==
    [Username |-> adfsUser.upn, Email |-> adfsUser.email, UPN |-> adfsUser.upn]

\* lines 99-105 without the test that the email is blank
emailFallback_Always(adfsUser) ==
    IF emailRegexMatch(adfsUser.UPN)
    THEN [adfsUser EXCEPT !.Email = adfsUser.UPN]
    ELSE adfsUser

\* lines 99-105: a blank email is taken from a UPN that is an email
emailFallback(adfsUser) ==
    IF Len(adfsUser.Email) = 0
    THEN IF emailRegexMatch(adfsUser.UPN)
         THEN [adfsUser EXCEPT !.Email = adfsUser.UPN]
         ELSE adfsUser
    ELSE adfsUser

AdapterResult(err, user, ptokens) == [err |-> err, user |-> user, ptokens |-> ptokens]

\* the body of GetUserInfoFromADFS from client.Do on, up to its return
\* statement (the deferred Close not yet run)
adfsBody(x, user, ptokens) ==
    IF x.net # "ok" THEN AdapterResult("network", user, ptokens)
    ELSE IF ~x.bodyJSON THEN AdapterResult("", user, ptokens)
    ELSE LET pt == [PAccessToken |-> x.access_token, PIdToken |-> x.id_token]
         IN  IF Len(x.id_token) < 2 THEN AdapterResult("", user, pt)
             ELSE IF ~x.id_token[2].b64 THEN AdapterResult("", user, pt)
             ELSE IF MapClaimsFails(x.id_token[2]) THEN AdapterResult("claims", user, pt)
             ELSE LET adfsUser == emailFallback(PrepareUserData(
                                      UnmarshalADFSUser(x.id_token[2])))
                  IN  AdapterResult("",
                                    [user EXCEPT !.Username = adfsUser.Username,
                                                 !.Email = adfsUser.Email],
                                    pt)

\* GetUserInfoFromADFS: the body, then the deferred Close, whose error
\* replaces the result once a response was received
GetUserInfoFromADFS(x, user, ptokens) ==
    LET r == adfsBody(x, user, ptokens)
    IN  IF x.net = "ok" /\ x.closeErr THEN [r EXCEPT !.err = "close"] ELSE r

\* ------------------------------------------------------------------ sessions
EmptyValues == [k \in {} |-> ""]

\* what session.Values[key] reads for a key that is not there
Nil == "<nil>"

\* session.Options.MaxAge as configured, and as the handler sets it to expire
SessionMaxAge == 300
ExpiredMaxAge == -1

NewSession == [Values |-> EmptyValues, MaxAge |-> SessionMaxAge]

Value(sess, key) == IF key \in DOMAIN sess.Values THEN sess.Values[key] ELSE Nil

\* ------------------------------------------------------------------ requests
NoQuery == [error |-> "", state |-> "", code |-> ""]

\* a URL: a path pattern of this server with the value of its {state}
\* variable and the query, or (path only) an address elsewhere
NoLocation == [path |-> "", pathState |-> "", query |-> NoQuery]

\* One request as its goroutine holds it: the input (path, query, whether its
\* session cookie decodes), the handler's locals (sess, opts, user, ptokens),
\* what the handler did (trace) and what it wrote (resp, cookie).
\* hops counts the redirects of this server the browser followed to get here;
\* cancelled says the request's context (r.Context()) has been cancelled.
IdleReq == [pc |-> "idle", path |-> "", query |-> NoQuery, badCookie |-> FALSE,
            hops |-> 0, cancelled |-> FALSE, sess |-> NewSession, opts |-> << >>,
            x |-> NoExchange, user |-> NewUser, ptokens |-> NoPTokens,
            mint |-> "none", saved |-> "none",
            trace |-> << >>, resp |-> << >>, cookie |-> << >>]

\* ------------------------------------------------------------------ responses
Msg(mode, text) == [mode |-> mode, text |-> text]

\* responses.Error400 / Error401 / Error403 / Error500 / Redirect302 /
\* RenderIndex: one write of a status (and a Location) to the response
Write(st, status, location, msg) ==
    [st EXCEPT !.resp = Append(@, [status |-> status, location |-> location,
                                   msg |-> msg])]

\* a step the handler took, and whether it succeeded
Step(st, name, ok) == [st EXCEPT !.trace = Append(@, [step |-> name, ok |-> ok])]

\* the handler's return statement
Return(st) == [st EXCEPT !.pc = "done"]

\* a failed type assertion: the goroutine panics, net/http drops the
\* connection and nothing is written
Panic(st) == Return(Step(st, "panic", FALSE))

Error400(st, msg) == Write(st, 400, NoLocation, msg)
Error401(st, msg) == Write(st, 401, NoLocation, msg)
Error403(st, msg) == Write(st, 403, NoLocation, msg)
Error500(st, msg) == Write(st, 500, NoLocation, msg)
Redirect302(st, location) == Write(st, 302, location, Msg("", << >>))
RenderIndex(st, msg) == Write(st, 200, NoLocation, msg)

\* ------------------------------------------------------------------ CallbackHandler
\* CallbackHandler with the state read before the IdP's error
callbackHandler_StateFirst(st) ==
    IF st.query.state = ""
    THEN Return(Error400(st, Msg("state", <<st.query>>)))
    ELSE IF st.query.error # ""
    THEN Return(Error401(st, Msg("idp", <<st.query.error>>)))
    ELSE Return(Redirect302(st, [path |-> "/auth/{state}/",
                                 pathState |-> st.query.state,
                                 query |-> st.query]))

\* CallbackHandler redirecting to /auth/{state}/ without the query
callbackHandler_DropQuery(st) ==
    IF st.query.error # ""
    THEN Return(Error401(st, Msg("idp", <<st.query.error>>)))
    ELSE IF st.query.state = ""
    THEN Return(Error400(st, Msg("state", <<st.query>>)))
    ELSE Return(Redirect302(st, [path |-> "/auth/{state}/",
                                 pathState |-> st.query.state,
                                 query |-> NoQuery]))

\* CallbackHandler: what it makes of the request st
callbackHandler(st) ==
    IF st.query.error # ""
    THEN Return(Error401(st, Msg("idp", <<st.query.error>>)))
    ELSE IF st.query.state = ""
    THEN Return(Error400(st, Msg("state", <<st.query>>)))
    ELSE Return(Redirect302(st, [path |-> "/auth/{state}/",
                                 pathState |-> st.query.state,
                                 query |-> st.query]))

\* ------------------------------------------------------------------ AuthStateHandler
\* jwtmanager.NewVPJWT: the token carries the identity and the IdP's tokens
NewVPJWT(user, ptokens) == [Username |-> user.Username, PTokens |-> ptokens]

\* lines 181-185: the session of the request, read from the store
sessionGet(st, store) ==
    IF st.badCookie
    THEN Return(Error400(Step(st, "sessstore.Get", FALSE), Msg("session", << >>)))
    ELSE Step([st EXCEPT !.sess = store], "sessstore.Get", TRUE)

\* lines 187-192 with a missing state read as the empty string
stateCheck_NilIsEmpty(st) ==
    IF st.pc = "done" THEN st
    ELSE IF (IF "state" \in DOMAIN st.sess.Values THEN st.sess.Values["state"] ELSE "")
                # st.query.state
    THEN Return(Error400(Step(st, "state", FALSE),
                         Msg("state", <<Value(st.sess, "state"), st.query.state>>)))
    ELSE Step(st, "state", TRUE)

\* lines 187-192: is the nonce "state" valid? A session without a state
\* holds the nil interface there, which no string equals, the empty one
\* included.
stateCheck(st) ==
    IF st.pc = "done" THEN st
    ELSE IF \/ "state" \notin DOMAIN st.sess.Values
            \/ st.sess.Values["state"] # st.query.state
    THEN Return(Error400(Step(st, "state", FALSE),
                         Msg("state", <<Value(st.sess, "state"), st.query.state>>)))
    ELSE Step(st, "state", TRUE)

\* lines 198-206 without the test of CodeChallengeMethod
authCodeOptions_Always(st, c) ==
    IF st.pc = "done" THEN st
    ELSE IF Value(st.sess, "codeChallenge") = Nil \/ Value(st.sess, "codeVerifier") = Nil
         THEN Panic(st)
         ELSE [st EXCEPT !.opts = << <<"code_challenge", Value(st.sess, "codeChallenge")>>,
                                     <<"code_verifier", Value(st.sess, "codeVerifier")>> >>]

\* lines 198-206: the PKCE options, when a code challenge method is configured
authCodeOptions(st, c) ==
    IF st.pc = "done" THEN st
    ELSE IF c.CodeChallengeMethod # ""
    THEN IF Value(st.sess, "codeChallenge") = Nil \/ Value(st.sess, "codeVerifier") = Nil
         THEN Panic(st)
         ELSE [st EXCEPT !.opts = << <<"code_challenge", Value(st.sess, "codeChallenge")>>,
                                     <<"code_verifier", Value(st.sess, "codeVerifier")>> >>]
    ELSE [st EXCEPT !.opts = << >>]

\* lines 208-211: the exchange x at the IdP, through the provider's adapter
userInfoStep(st, x) ==
    LET r  == GetUserInfoFromADFS(x, st.user, st.ptokens)
        s1 == Step([st EXCEPT !.x = x, !.user = r.user, !.ptokens = r.ptokens],
                   "getUserInfo", r.err = "")
    IN  IF r.err # ""
        THEN Return(Error400(s1, Msg("userinfo", <<r.err>>)))
        ELSE s1

\* lines 214-218 without the return after Error403
verifyStep_NoReturn(st, c) ==
    IF st.pc = "done" THEN st
    ELSE LET v == verifyUser(st.user, c)
         IN  IF ~v.ok
             THEN Error403(Step(st, "verifyUser", FALSE), v.err)
             ELSE Step(st, "verifyUser", TRUE)

\* lines 214-218: verify / authz the user
verifyStep(st, c) ==
    IF st.pc = "done" THEN st
    ELSE LET v == verifyUser(st.user, c)
         IN  IF ~v.ok
             THEN Return(Error403(Step(st, "verifyUser", FALSE), v.err))
             ELSE Step(st, "verifyUser", TRUE)

\* lines 224-229 with the session expired and saved before the jwt is issued
mintStep_ExpireFirst(st, mintOk) ==
    IF st.pc = "done" THEN st
    ELSE LET s1 == [st EXCEPT !.sess.MaxAge = ExpiredMaxAge, !.saved = "ok"]
         IN  IF ~mintOk
             THEN Return(Error500(Step([s1 EXCEPT !.mint = "failed"], "NewVPJWT", FALSE),
                                  Msg("token", << >>)))
             ELSE Step([s1 EXCEPT !.mint = "ok"], "NewVPJWT", TRUE)

\* lines 224-229: issue the jwt
mintStep(st, mintOk) ==
    IF st.pc = "done" THEN st
    ELSE IF ~mintOk
    THEN Return(Error500(Step([st EXCEPT !.mint = "failed"], "NewVPJWT", FALSE),
                         Msg("token", << >>)))
    ELSE Step([st EXCEPT !.mint = "ok"], "NewVPJWT", TRUE)

\* line 230: cookie.SetCookie
setCookieStep(st) ==
    IF st.pc = "done" THEN st
    ELSE Step([st EXCEPT !.cookie = Append(@, NewVPJWT(st.user, st.ptokens))],
              "SetCookie", TRUE)

\* lines 236-238 without the assignment of MaxAge
clearSession_NoExpire(sess, requestedURL) ==
    [Values |-> (requestedURL :> 0) @@ [sess.Values EXCEPT !["requestedURL"] = ""],
     MaxAge |-> sess.MaxAge]

\* lines 236-241: clear the session values, expire the session, save it
clearSession(sess, requestedURL) ==
    [Values |-> (requestedURL :> 0) @@ [sess.Values EXCEPT !["requestedURL"] = ""],
     MaxAge |-> ExpiredMaxAge]

\* lines 232-248: send them on their way, or render the index page
finishStep(st, saveOk) ==
    IF st.pc = "done" THEN st
    ELSE LET requestedURL == Value(st.sess, "requestedURL")
         IN  IF requestedURL = Nil THEN Panic(st)
             ELSE IF requestedURL # ""
             THEN Return(Redirect302(
                      Step([st EXCEPT !.sess = clearSession(st.sess, requestedURL),
                                      !.saved = IF saveOk THEN "ok" ELSE "failed"],
                           "session.Save", saveOk),
                      [NoLocation EXCEPT !.path = requestedURL]))
             ELSE Return(RenderIndex(st, Msg("index", <<NewVPJWT(st.user, st.ptokens)>>)))

\* AuthStateHandler up to the call of getUserInfo
authStateHandlerEnter(st, store, c) ==
    authCodeOptions(stateCheck(sessionGet(st, store)), c)

\* AuthStateHandler from the return of getUserInfo to its end
authStateHandlerLeave(st, c, x, mintOk, saveOk) ==
    finishStep(setCookieStep(mintStep(verifyStep(userInfoStep(st, x), c), mintOk)),
               saveOk)

\* session.Save of an expired session removes it from the store; a failed
\* Save leaves the store as it was
storeAfter(st, store) == IF st.saved = "ok" THEN NewSession ELSE store

\* the mux found no route: http.NotFound
notFoundHandler(st) == Return(Write(st, 404, NoLocation, Msg("notfound", << >>)))

NoArg == [fn |-> "none"]
NoRet == [done |-> FALSE, ok |-> FALSE, err |-> NoErr]

\* ------------------------------------------------------------------ inputs
SeqsOf(S, lo, hi) == UNION {[1..k -> S] : k \in lo..hi}

\* "a@a", "A@A", "A", ".@a"
WhiteListPool == { <<"a","@","a">>, <<"A","@","A">>, <<"A">>, <<".","@","a">> }

CaseInsensitiveDomainChoices ==
    { << >>, << <<"a">> >>, << <<"A">> >>, << <<"a",".","a">>, <<"a">> >> }

Teams == {"t1", "t2"}

\* "bob@EXAMPLE.COM", "Bob@Example.com", "example.com"
S5_Username == <<"b","o","b","@","E","X","A","M","P","L","E",".","C","O","M">>
S5_WhiteList == << <<"B","o","b","@","E","x","a","m","p","l","e",".","c","o","m">> >>
S5_Domains == << <<"e","x","a","m","p","l","e",".","c","o","m">> >>

BaseCfg == [AllowAllUsers |-> FALSE, WhiteList |-> << >>,
            TeamWhiteList |-> << >>, Domains |-> << >>,
            CaseInsensitiveEmails |-> FALSE,
            CaseInsensitiveEmailDomains |-> << >>,
            CodeChallengeMethod |-> ""]

\* configurations and users that exercise the WhiteList rule
WhiteListCfgs ==
    { [BaseCfg EXCEPT !.WhiteList = wl, !.CaseInsensitiveEmails = ci,
                      !.CaseInsensitiveEmailDomains = cd] :
        wl \in SeqsOf(WhiteListPool, 1, MaxWL) \cup {S5_WhiteList},
        ci \in BOOLEAN,
        cd \in CaseInsensitiveDomainChoices \cup {S5_Domains} }

WhiteListUsers ==
    { [NewUser EXCEPT !.Username = u] : u \in Strings(MaxLen) \cup {S5_Username} }

\* configurations and users that exercise the order of the rules
PriorityCfgs ==
    { [BaseCfg EXCEPT !.AllowAllUsers = aa, !.WhiteList = wl,
                      !.TeamWhiteList = tw, !.Domains = dm] :
        aa \in BOOLEAN,
        wl \in { << >>, << <<"a","@","a">> >>, << EmptyString >> },
        tw \in SeqsOf(Teams, 0, MaxTeams),
        dm \in { << >>, << <<"a">> >> } }

PriorityUsers ==
    { [Username |-> u, Email |-> e, TeamMemberships |-> t] :
        u \in { EmptyString, <<"a","@","a">>, <<"A">> },
        e \in { EmptyString, <<"a","@","a">>, <<"a","@","A",".","a">>, <<"a","@","A">> },
        t \in SeqsOf(Teams, 0, MaxTeams) }

\* ------------------------------------------------------------------ verifyUser, called directly
InitVerify ==
    /\ \/ /\ cfg \in WhiteListCfgs
          /\ \E u \in WhiteListUsers : arg = [fn |-> "verifyUser", user |-> u]
       \/ /\ cfg \in PriorityCfgs
          /\ \E u \in PriorityUsers : arg = [fn |-> "verifyUser", user |-> u]
    /\ session = NewSession
    /\ logins = 0
    /\ req = [r \in 1..MaxReq |-> IdleReq]
    /\ ret = NoRet

CallVerifyUser ==
    /\ arg.fn = "verifyUser"
    /\ ~ret.done
    /\ ret' = [done |-> TRUE] @@ verifyUser(arg.user, cfg)
    /\ UNCHANGED <<cfg, session, logins, req, arg>>

NextVerify == CallVerifyUser

SpecVerify == InitVerify /\ [][NextVerify]_vars

\* ------------------------------------------------------------------ claims about verifyUser
VerifyDone == arg.fn = "verifyUser" /\ ret.done

\* the text after the at sign
DomainPart(u) ==
    LET at == CHOOSE i \in 1..Len(u) : u[i] = "@" /\ \A j \in 1..Len(u) : u[j] = "@" => i <= j
    IN  SubSeq(u, at + 1, Len(u))

\* Username is a valid email that the configuration treats case-insensitively
FoldedUsername(u, c) ==
    /\ isEmailValid(u)
    /\ \/ c.CaseInsensitiveEmails
       \/ \E d \in Range(c.CaseInsensitiveEmailDomains) :
              ToLower(DomainPart(u)) = ToLower(d)

\* Username is in WhiteList: exactly, or case-folded for a folded username
UsernameInWhiteList(u, c) ==
    \/ u \in Range(c.WhiteList)
    \/ /\ FoldedUsername(u, c)
       /\ ToLower(u) \in {ToLower(wl) : wl \in Range(c.WhiteList)}

RuleDecision(user, c) ==
    CASE c.AllowAllUsers -> TRUE
      [] ~c.AllowAllUsers /\ c.WhiteList # << >> ->
            UsernameInWhiteList(user.Username, c)
      [] ~c.AllowAllUsers /\ c.WhiteList = << >> /\ c.TeamWhiteList # << >> ->
            Range(user.TeamMemberships) \cap Range(c.TeamWhiteList) # {}
      [] ~c.AllowAllUsers /\ c.WhiteList = << >> /\ c.TeamWhiteList = << >>
            /\ c.Domains # << >> ->
            IsUnderManagement(user.Email, c)
      [] OTHER -> TRUE

\* C3: verifyUser's result is the decision of the first rule, in the order
\* AllowAllUsers, WhiteList, TeamWhiteList, Domains, whose condition holds;
\* with nothing configured the user is allowed. Rules after the first
\* matching one do not affect the result.
C3_FirstMatchingRuleWins ==
    VerifyDone => (ret.ok <=> RuleDecision(arg.user, cfg))

\* C3 witness: the TeamWhiteList rule allowed a user whom the Domains rule,
\* also configured, would have denied.
C3_Witness ==
    /\ VerifyDone
    /\ ~cfg.AllowAllUsers /\ cfg.WhiteList = << >>
    /\ cfg.TeamWhiteList # << >> /\ cfg.Domains # << >>
    /\ ~IsUnderManagement(arg.user.Email, cfg)
    /\ ret.ok

WhiteListRuleDecides == VerifyDone /\ ~cfg.AllowAllUsers /\ cfg.WhiteList # << >>

\* C4: under the WhiteList rule the user is allowed iff Username equals an
\* entry exactly, or Username is a valid email that is case-insensitive by
\* configuration and equals an entry after case-folding both; a Username
\* that is not a valid email is matched exactly only; and scenario S5 is
\* allowed.
C4_WhiteListMatching ==
    WhiteListRuleDecides =>
        /\ ret.ok <=> UsernameInWhiteList(arg.user.Username, cfg)
        /\ ~isEmailValid(arg.user.Username) =>
               (ret.ok <=> arg.user.Username \in Range(cfg.WhiteList))
        /\ ( /\ arg.user.Username = S5_Username
             /\ cfg.WhiteList = S5_WhiteList
             /\ cfg.CaseInsensitiveEmailDomains = S5_Domains ) => ret.ok

\* C4 witness: scenario S5, allowed through the case-insensitive domain
\* although no entry equals the Username exactly.
C4_Witness ==
    /\ WhiteListRuleDecides
    /\ arg.user.Username = S5_Username
    /\ cfg.WhiteList = S5_WhiteList
    /\ cfg.CaseInsensitiveEmailDomains = S5_Domains
    /\ ~cfg.CaseInsensitiveEmails
    /\ arg.user.Username \notin Range(cfg.WhiteList)
    /\ ret.ok

\* C5: verifyUser denies a user whose Username is empty, under every
\* configuration.
C5_EmptyUsernameDenied ==
    (VerifyDone /\ arg.user.Username = EmptyString) => ~ret.ok

\* ------------------------------------------------------------------ GetUserInfoFromADFS, called directly
\* "carol@corp.local"
S6_UPN == <<"c","a","r","o","l","@","c","o","r","p",".","l","o","c","a","l">>

GoodExchanges ==
    { [net |-> "ok", status |-> 200, bodyJSON |-> TRUE, access_token |-> "AT",
       id_token |-> <<OpaquePart, Part(TRUE, TRUE, [email |-> e, upn |-> u]), OpaquePart>>,
       closeErr |-> FALSE] :
        e \in Strings(MaxLen), u \in Strings(MaxLen) \cup {S6_UPN} }

SmallClaims ==
    { [email |-> e, upn |-> u] :
        e \in {EmptyString, <<"a","@","a">>}, u \in {EmptyString, <<"A","@","A">>} }

IdTokens ==
    { <<OpaquePart>> } \cup
    { <<OpaquePart, Part(b, j, c)>> \o tail :
        b \in BOOLEAN, j \in BOOLEAN, c \in SmallClaims,
        tail \in { << >>, <<OpaquePart>> } }

AnyExchanges ==
    { [net |-> n, status |-> st, bodyJSON |-> bj, access_token |-> "AT",
       id_token |-> t, closeErr |-> ce] :
        n \in {"ok", "error"}, st \in {200, 400}, bj \in BOOLEAN,
        t \in IdTokens, ce \in BOOLEAN }

InitADFS ==
    /\ cfg = BaseCfg
    /\ \E x \in GoodExchanges \cup AnyExchanges :
           arg = [fn |-> "GetUserInfoFromADFS", x |-> x]
    /\ session = NewSession
    /\ logins = 0
    /\ req = [r \in 1..MaxReq |-> IdleReq]
    /\ ret = NoRet

CallGetUserInfoFromADFS ==
    /\ arg.fn = "GetUserInfoFromADFS"
    /\ ~ret.done
    /\ LET r == GetUserInfoFromADFS(arg.x, NewUser, NoPTokens)
       IN  ret' = [done |-> TRUE, ok |-> r.err = "",
                   err |-> [mode |-> r.err, text |-> << >>],
                   user |-> r.user, ptokens |-> r.ptokens]
    /\ UNCHANGED <<cfg, session, logins, req, arg>>

NextADFS == CallGetUserInfoFromADFS

SpecADFS == InitADFS /\ [][NextADFS]_vars

\* the exchange got as far as mapping the claims of a decodable JSON payload
ReachedMapping(x) ==
    /\ x.net = "ok" /\ x.bodyJSON
    /\ Len(x.id_token) >= 2
    /\ x.id_token[2].b64 /\ x.id_token[2].json

ADFSDone == arg.fn = "GetUserInfoFromADFS" /\ ret.done

\* C10: the Email the ADFS adapter stores is the IdP's email when that is
\* non-empty; otherwise the UPN when the UPN matches the email pattern;
\* otherwise empty. A non-empty IdP email is never replaced by the UPN.
C10_EmailFallback ==
    (ADFSDone /\ ReachedMapping(arg.x)) =>
        LET claims == arg.x.id_token[2].claims
        IN  /\ claims.email # EmptyString => ret.user.Email = claims.email
            /\ (claims.email = EmptyString /\ emailRegexMatch(claims.upn))
                   => ret.user.Email = claims.upn
            /\ (claims.email = EmptyString /\ ~emailRegexMatch(claims.upn))
                   => ret.user.Email = EmptyString

\* C10 witness: scenario S6, a blank email replaced by the UPN.
C10_Witness ==
    /\ ADFSDone /\ ReachedMapping(arg.x)
    /\ arg.x.id_token[2].claims.email = EmptyString
    /\ arg.x.id_token[2].claims.upn = S6_UPN
    /\ ret.user.Email = S6_UPN

\* ------------------------------------------------------------------ routes
\* the paths the handlers are written for (their doc comments)
HandlerRoutes ==
    ("/login" :> "LoginHandler") @@ ("/auth" :> "CallbackHandler")
        @@ ("/auth/{state}/" :> "AuthStateHandler")

\* the routes main registers on its mux
MainRoutes ==
    ("/validate" :> "ValidateRequestHandler")
        @@ ("/_external-auth-{id}" :> "ValidateRequestHandler")
        @@ ("/login" :> "LoginHandler")
        @@ ("/logout" :> "LogoutHandler")
        @@ ("/auth" :> "CallbackHandler")
        @@ ("/healthcheck" :> "HealthcheckHandler")
        @@ ("/static/" :> "FileServer")

\* mux.Router: the handler of the route that matches, or NotFound
Route(routes, path) == IF path \in DOMAIN routes THEN routes[path] ELSE "NotFound"

\* ------------------------------------------------------------------ the callback flow
\* the i-th state nonce /login draws
Nonce(i) == ToString(i)

RequestedURLs == {"", "https://app.example.com/x"}

HandlerCfgs ==
    { [BaseCfg EXCEPT !.AllowAllUsers = aa, !.WhiteList = wl,
                      !.CodeChallengeMethod = m] :
        aa \in BOOLEAN, wl \in { << <<"a","@","a">> >> }, m \in {"", "S256"} }

GoodExchange(e, u) ==
    [net |-> "ok", status |-> 200, bodyJSON |-> TRUE, access_token |-> "AT",
     id_token |-> <<OpaquePart, Part(TRUE, TRUE, [email |-> e, upn |-> u]), OpaquePart>>,
     closeErr |-> FALSE]

\* what the IdP may do with the token request of a callback: no response;
\* an error status with a JSON error body; a body that is not JSON; an
\* id_token without a dot; a payload that is not base64url; a payload that
\* is not JSON; a failing Close; and good answers for three users
HandlerExchanges ==
    { [NoExchange EXCEPT !.net = "error"],
      [GoodExchange(EmptyString, EmptyString) EXCEPT
           !.status = 400, !.access_token = "", !.id_token = <<OpaquePart>>],
      [GoodExchange(EmptyString, EmptyString) EXCEPT
           !.bodyJSON = FALSE, !.access_token = "", !.id_token = << >>],
      [GoodExchange(EmptyString, EmptyString) EXCEPT !.id_token = <<OpaquePart>>],
      [GoodExchange(EmptyString, EmptyString) EXCEPT
           !.id_token = <<OpaquePart, Part(FALSE, FALSE, NoClaims), OpaquePart>>],
      [GoodExchange(EmptyString, EmptyString) EXCEPT
           !.id_token = <<OpaquePart, Part(TRUE, FALSE, NoClaims), OpaquePart>>],
      [GoodExchange(EmptyString, <<"a","@","a">>) EXCEPT !.closeErr = TRUE],
      GoodExchange(EmptyString, EmptyString),
      GoodExchange(EmptyString, <<"a","@","a">>),
      GoodExchange(EmptyString, <<"A","@","A">>) }

\* the states a request may carry: none, one no login drew (the text a
\* missing value prints as), and the ones /login drew
StatePool == {"", Nil} \cup {Nonce(i) : i \in 1..MaxLogins}

\* the requests a client may send: the IdP's callback to /auth; a request
\* straight to /auth/{state}/ (also one carrying an error parameter and one
\* whose session cookie does not decode); and a path no handler is written for
Requests ==
    { [path |-> "/auth", query |-> [error |-> e, state |-> st, code |-> "C1"],
       badCookie |-> FALSE] : e \in {"", "access_denied"}, st \in StatePool }
    \cup
    { [path |-> "/auth/{state}/", query |-> [error |-> "", state |-> st, code |-> "C1"],
       badCookie |-> FALSE] : st \in StatePool }
    \cup
    { [path |-> "/auth/{state}/",
       query |-> [error |-> "access_denied", state |-> Nonce(1), code |-> "C1"],
       badCookie |-> FALSE],
      [path |-> "/auth/{state}/",
       query |-> [error |-> "", state |-> Nonce(1), code |-> "C1"],
       badCookie |-> TRUE],
      [path |-> "/other", query |-> NoQuery, badCookie |-> FALSE] }

Init ==
    /\ cfg \in HandlerCfgs
    /\ session = NewSession
    /\ logins = 0
    /\ req = [r \in 1..MaxReq |-> IdleReq]
    /\ arg = NoArg
    /\ ret = NoRet

\* LoginHandler: a fresh state and the PKCE pair are stored in the session
\* with the requested URL
LoginHandler(routes) ==
    /\ Route(routes, "/login") = "LoginHandler"
    /\ logins < MaxLogins
    /\ \E url \in RequestedURLs :
           session' = [Values |-> [state |-> Nonce(logins + 1),
                                   requestedURL |-> url,
                                   codeVerifier |-> "verifier-" \o Nonce(logins + 1),
                                   codeChallenge |-> "challenge-" \o Nonce(logins + 1)],
                       MaxAge |-> SessionMaxAge]
    /\ logins' = logins + 1
    /\ UNCHANGED <<cfg, req, arg, ret>>

\* a client sends a request; slots are taken in order
Receive(r) ==
    /\ req[r].pc = "idle"
    /\ \A q \in DOMAIN req : q < r => req[q].pc # "idle"
    /\ \E in \in Requests :
           req' = [req EXCEPT ![r] = [IdleReq EXCEPT !.pc = "recv",
                                                     !.path = in.path,
                                                     !.query = in.query,
                                                     !.badCookie = in.badCookie]]
    /\ UNCHANGED <<cfg, session, logins, arg, ret>>

\* the browser follows a redirect to a path of this server
FollowRedirect(r) ==
    /\ req[r].pc = "done"
    /\ req[r].resp # << >>
    /\ LET last == req[r].resp[Len(req[r].resp)]
       IN  /\ last.status = 302
           /\ last.location.pathState # ""
           /\ req' = [req EXCEPT ![r] = [IdleReq EXCEPT !.pc = "recv",
                                                       !.path = last.location.path,
                                                       !.query = last.location.query,
                                                       !.hops = req[r].hops + 1]]
    /\ UNCHANGED <<cfg, session, logins, arg, ret>>

CallbackHandler(routes, r) ==
    /\ req[r].pc = "recv"
    /\ Route(routes, req[r].path) = "CallbackHandler"
    /\ req' = [req EXCEPT ![r] = callbackHandler(@)]
    /\ UNCHANGED <<cfg, session, logins, arg, ret>>

\* AuthStateHandler until it waits for the IdP
AuthStateHandler(routes, r) ==
    /\ req[r].pc = "recv"
    /\ Route(routes, req[r].path) = "AuthStateHandler"
    /\ LET st == authStateHandlerEnter(req[r], session, cfg)
       IN  req' = [req EXCEPT ![r] = IF st.pc = "done" THEN st
                                     ELSE [st EXCEPT !.pc = "exchange"]]
    /\ UNCHANGED <<cfg, session, logins, arg, ret>>

\* AuthStateHandler once the IdP has answered (or failed to)
AuthStateHandlerReturn(r) ==
    /\ req[r].pc = "exchange"
    /\ \E x \in HandlerExchanges, mintOk \in BOOLEAN, saveOk \in BOOLEAN :
           LET st == authStateHandlerLeave(req[r], cfg, x, mintOk, saveOk)
           IN  /\ req' = [req EXCEPT ![r] = st]
               /\ session' = storeAfter(st, session)
    /\ UNCHANGED <<cfg, logins, arg, ret>>

NotFound(routes, r) ==
    /\ req[r].pc = "recv"
    /\ Route(routes, req[r].path) = "NotFound"
    /\ req' = [req EXCEPT ![r] = notFoundHandler(@)]
    /\ UNCHANGED <<cfg, session, logins, arg, ret>>

\* the handlers, each served at the path it is written for
Next ==
    \/ LoginHandler(HandlerRoutes)
    \/ \E r \in DOMAIN req : Receive(r)
    \/ \E r \in DOMAIN req : FollowRedirect(r)
    \/ \E r \in DOMAIN req : CallbackHandler(HandlerRoutes, r)
    \/ \E r \in DOMAIN req : AuthStateHandler(HandlerRoutes, r)
    \/ \E r \in DOMAIN req : AuthStateHandlerReturn(r)
    \/ \E r \in DOMAIN req : NotFound(HandlerRoutes, r)

Spec == Init /\ [][Next]_vars

\* the same handlers, with room for a callback and its repetition
InitReplay ==
    /\ cfg \in HandlerCfgs
    /\ session = NewSession
    /\ logins = 0
    /\ req = [r \in 1..MaxReplay |-> IdleReq]
    /\ arg = NoArg
    /\ ret = NoRet

SpecReplay == InitReplay /\ [][Next]_vars

\* main's mux: the request goes to the handler of the route that matches its
\* path, a handler that waits for the IdP is resumed, and a path without a
\* route is answered by NotFound
ServeMux(r) ==
    IF req[r].pc = "exchange"
    THEN AuthStateHandlerReturn(r)
    ELSE CASE Route(MainRoutes, req[r].path) = "CallbackHandler" ->
                  CallbackHandler(MainRoutes, r)
           [] Route(MainRoutes, req[r].path) = "AuthStateHandler" ->
                  AuthStateHandler(MainRoutes, r)
           [] OTHER -> NotFound(MainRoutes, r)

NextMain ==
    \/ LoginHandler(MainRoutes)
    \/ \E r \in DOMAIN req : Receive(r)
    \/ \E r \in DOMAIN req : FollowRedirect(r)
    \/ \E r \in DOMAIN req : ServeMux(r)

SpecMain == InitReplay /\ [][NextMain]_vars

\* ------------------------------------------------------------------ claims about the callback
Statuses(st) == [i \in 1..Len(st.resp) |-> st.resp[i].status]

StepNames(st) == [i \in 1..Len(st.trace) |-> st.trace[i].step]

Took(st, name) == \E i \in 1..Len(st.trace) : st.trace[i].step = name

Passed(st, name) ==
    \E i \in 1..Len(st.trace) : st.trace[i].step = name /\ st.trace[i].ok

Failed(st, name) ==
    \E i \in 1..Len(st.trace) : st.trace[i].step = name /\ ~st.trace[i].ok

IsPrefix(s, t) == Len(s) <= Len(t) /\ SubSeq(t, 1, Len(s)) = s

ErrorStatuses == {400, 401, 403, 500}

AtAuthState(st) == st.path = "/auth/{state}/"

\* C1: a state nonce is accepted at most once: when a request that passed
\* the state check has finished, a later request with the same state does
\* not pass it, whatever the first one's outcome and requestedURL.
C1_NonceAcceptedOnce ==
    [][ \A r1, r2 \in DOMAIN req :
          ( /\ r1 # r2
            /\ req[r1].pc = "done" /\ Passed(req[r1], "state")
            /\ req[r2].pc = "recv" /\ AtAuthState(req[r2])
            /\ req[r2].query.state = req[r1].query.state )
          => ~Passed(req'[r2], "state") ]_vars

\* the steps of AuthStateHandler in the order the claim gives them (the
\* session is read before the first and saved before the redirect)
StepOrder == <<"sessstore.Get", "state", "getUserInfo", "verifyUser",
               "NewVPJWT", "SetCookie", "session.Save">>

\* C2: within one /auth/{state}/ request the steps run in the order state
\* check, IdP exchange, authorization, mint, SetCookie, redirect, each only
\* after every earlier one succeeded; a response with an error status never
\* carries the session cookie.
C2_StrictOrder ==
    \A r \in DOMAIN req :
        AtAuthState(req[r]) =>
            /\ IsPrefix(StepNames(req[r]), StepOrder)
            /\ \A i \in 1..Len(req[r].trace) :
                   (i < Len(req[r].trace) /\ req[r].trace[i].step # "session.Save")
                       => req[r].trace[i].ok
            /\ req[r].cookie # << >> =>
                   /\ \A n \in {"state", "getUserInfo", "verifyUser", "NewVPJWT"} :
                          Passed(req[r], n)
                   /\ \A i \in 1..Len(req[r].resp) :
                          req[r].resp[i].status \notin ErrorStatuses
            /\ (\E i \in 1..Len(req[r].resp) : req[r].resp[i].status \in {200, 302})
                   => Passed(req[r], "SetCookie")

\* C2 witness: scenario S4, a whitelist miss answered 403 without a cookie.
C2_Witness ==
    \E r \in DOMAIN req :
        /\ req[r].pc = "done" /\ AtAuthState(req[r])
        /\ Passed(req[r], "getUserInfo") /\ Failed(req[r], "verifyUser")
        /\ ~cfg.AllowAllUsers /\ req[r].user.Username \notin Range(cfg.WhiteList)
        /\ Statuses(req[r]) = <<403>>
        /\ req[r].cookie = << >>

\* C6: when the adapter ends with an empty Username the callback fails:
\* no token is minted, no cookie is set, and the response is an error.
C6_MissingUsernameFatal ==
    \A r \in DOMAIN req :
        ( /\ req[r].pc = "done" /\ Took(req[r], "getUserInfo")
          /\ req[r].user.Username = EmptyString )
        => /\ req[r].mint = "none"
           /\ req[r].cookie = << >>
           /\ \E i \in 1..Len(req[r].resp) : req[r].resp[i].status \in ErrorStatuses

\* the IdP exchange failed: no response, a non-success status, or a
\* malformed body (not JSON, an id_token without two parts, a payload that
\* is not base64url)
ExchangeFailed(x) ==
    \/ x.net = "error"
    \/ x.status # 200
    \/ ~x.bodyJSON
    \/ Len(x.id_token) < 2
    \/ ~x.id_token[2].b64

\* C7: every failed IdP exchange makes the adapter return an error, and the
\* callback answers 400 without a cookie.
C7_ExchangeFailureIs400 ==
    \A r \in DOMAIN req :
        ( /\ req[r].pc = "done" /\ Took(req[r], "getUserInfo")
          /\ ExchangeFailed(req[r].x) )
        => /\ Failed(req[r], "getUserInfo")
           /\ Statuses(req[r]) = <<400>>
           /\ req[r].cookie = << >>

\* C8: through the routes main registers, a callback /auth?code&state with
\* the state of the preceding /login ends, after the browser followed the
\* server's redirect, at the handler that exchanges the code: the final
\* response sets the cookie and redirects to the requested URL, unless the
\* IdP exchange, the policy or the mint failed.
C8_FreshLoginCompletes ==
    \A r \in DOMAIN req :
        ( /\ req[r].pc = "done" /\ req[r].hops >= 1
          /\ req[r].query.error = ""
          /\ logins >= 1 /\ req[r].query.state = Nonce(logins) )
        => \/ /\ req[r].cookie # << >>
              /\ \E i \in 1..Len(req[r].resp) :
                     /\ req[r].resp[i].status = 302
                     /\ req[r].resp[i].location.path = Value(req[r].sess, "requestedURL")
           \/ /\ Took(req[r], "getUserInfo")
              /\ \E i \in 1..Len(req[r].resp) : req[r].resp[i].status \in {400, 403, 500}

\* C9: the error outcomes of the callback: an error parameter gives 401
\* even when the state is absent; an absent state gives 400; a state that
\* is not the session's gives 400; an adapter error gives 400; a denial
\* gives 403; a failed mint gives 500; every request gets one outcome.
C9_ErrorOutcomes ==
    \A r \in DOMAIN req :
        LET st == req[r]
        IN  (st.pc = "done" /\ st.path \in {"/auth", "/auth/{state}/"}) =>
            /\ Len(st.resp) = 1
            /\ st.resp[1].status \in {200, 302} \cup ErrorStatuses
            /\ st.path = "/auth" =>
                   /\ st.query.error # "" => st.resp[1].status = 401
                   /\ (st.query.error = "" /\ st.query.state = "")
                          => st.resp[1].status = 400
                   /\ (st.query.error = "" /\ st.query.state # "")
                          => st.resp[1].status = 302
            /\ AtAuthState(st) =>
                   /\ (~st.badCookie /\ Value(st.sess, "state") # st.query.state)
                          => st.resp[1].status = 400
                   /\ (Took(st, "getUserInfo")
                         /\ GetUserInfoFromADFS(st.x, NewUser, NoPTokens).err # "")
                          => st.resp[1].status = 400
                   /\ (Passed(st, "getUserInfo") /\ ~verifyUser(st.user, cfg).ok)
                          => st.resp[1].status = 403
                   /\ st.mint = "failed" => st.resp[1].status = 500
                   /\ st.resp[1].status = 401 => FALSE

\* C9 witness: a failed mint answered 500.
C9_Witness ==
    \E r \in DOMAIN req :
        /\ req[r].pc = "done" /\ AtAuthState(req[r])
        /\ req[r].mint = "failed"
        /\ Statuses(req[r]) = <<500>>
        /\ req[r].cookie = << >>

\* ------------------------------------------------------------------ concurrent callbacks
\* C11: two /auth/{state}/ requests with the same state and the same session
\* never both pass the state check: they are never both waiting for the
\* IdP at once, and never both issued a cookie.
C11_ConcurrentCallbacksExclusive ==
    \A r1, r2 \in DOMAIN req :
        ( /\ r1 # r2
          /\ AtAuthState(req[r1]) /\ AtAuthState(req[r2])
          /\ req[r1].query.state = req[r2].query.state )
        => /\ ~(req[r1].pc = "exchange" /\ req[r2].pc = "exchange")
           /\ ~(req[r1].cookie # << >> /\ req[r2].cookie # << >>)

\* ------------------------------------------------------------------ the 403 message
\* configurations with one policy set each: two WhiteLists, two
\* TeamWhiteLists, two Domains lists
PolicyCfgs ==
    { [BaseCfg EXCEPT !.WhiteList = wl] :
        wl \in { << <<"a","@","a">> >>, << <<"A","@","A">> >> } }
    \cup
    { [BaseCfg EXCEPT !.TeamWhiteList = tw] : tw \in { <<"t1">>, <<"t2">> } }
    \cup
    { [BaseCfg EXCEPT !.Domains = dm] :
        dm \in { << <<"a">> >>, << <<"a",".","a">> >> } }

InitPolicy ==
    /\ cfg \in PolicyCfgs
    /\ session = NewSession
    /\ logins = 0
    /\ req = [r \in 1..MaxReq |-> IdleReq]
    /\ arg = NoArg
    /\ ret = NoRet

\* the callback flow under each of these policies
SpecPolicy == InitPolicy /\ [][Next]_vars

\* the configurations that differ from c only in the members of its policy
\* sets
SameModeCfgs(c) ==
    { c2 \in PolicyCfgs :
        /\ c2.AllowAllUsers = c.AllowAllUsers
        /\ (Len(c2.WhiteList) = 0) = (Len(c.WhiteList) = 0)
        /\ (Len(c2.TeamWhiteList) = 0) = (Len(c.TeamWhiteList) = 0)
        /\ (Len(c2.Domains) = 0) = (Len(c.Domains) = 0)
        /\ c2.CaseInsensitiveEmails = c.CaseInsensitiveEmails
        /\ c2.CaseInsensitiveEmailDomains = c.CaseInsensitiveEmailDomains
        /\ c2.CodeChallengeMethod = c.CodeChallengeMethod }

\* what lines 214-218 write for this user under the configuration c
DenialResponse(user, c) == verifyStep([IdleReq EXCEPT !.user = user], c).resp

\* C12: the 403 of a denied user does not depend on the members of the
\* policy set: under every configuration that differs only in those members
\* and also denies the user, the response written is the same.
C12_DenialMessageHidesPolicy ==
    \A r \in DOMAIN req :
        ( /\ req[r].pc = "done" /\ Failed(req[r], "verifyUser")
          /\ Statuses(req[r]) = <<403>> )
        => \A c2 \in SameModeCfgs(cfg) :
               ~verifyUser(req[r].user, c2).ok
                   => DenialResponse(req[r].user, c2) = req[r].resp

\* ------------------------------------------------------------------ the wait for the IdP
\* the client goes away while its request is being served: the context of
\* the inbound request is cancelled. The token request is built by
\* http.NewRequest, without that context, and sent by an http.Client without
\* a Timeout, so the handler's position is left as it is.
CancelRequest(r) ==
    /\ req[r].pc \in {"recv", "exchange"}
    /\ ~req[r].cancelled
    /\ req' = [req EXCEPT ![r].cancelled = TRUE]
    /\ UNCHANGED <<cfg, session, logins, arg, ret>>

NextLive ==
    \/ LoginHandler(HandlerRoutes)
    \/ \E r \in DOMAIN req : Receive(r)
    \/ \E r \in DOMAIN req : FollowRedirect(r)
    \/ \E r \in DOMAIN req : CancelRequest(r)
    \/ \E r \in DOMAIN req : CallbackHandler(HandlerRoutes, r)
    \/ \E r \in DOMAIN req : AuthStateHandler(HandlerRoutes, r)
    \/ \E r \in DOMAIN req : AuthStateHandlerReturn(r)
    \/ \E r \in DOMAIN req : NotFound(HandlerRoutes, r)

\* net/http serves every request on a goroutine of its own, and a goroutine
\* that can run does run. AuthStateHandlerReturn is left out: client.Do
\* returns when the IdP answers or the connection fails, and neither a
\* timer nor the inbound context makes it return otherwise.
HandlersRun ==
    \A r \in 1..MaxReq :
        /\ WF_vars(CallbackHandler(HandlerRoutes, r))
        /\ WF_vars(AuthStateHandler(HandlerRoutes, r))
        /\ WF_vars(NotFound(HandlerRoutes, r))

SpecLive == Init /\ [][NextLive]_vars /\ HandlersRun

\* C13: the call to the IdP is bounded and cancellable: a request that
\* waits for the IdP, cancelled or not, eventually ends with a response.
C13_ExchangeTerminates ==
    \A r \in 1..MaxReq :
        (req[r].pc = "exchange") ~> (req[r].pc = "done" /\ req[r].resp # << >>)

AdapterInvoked(st) == st.pc = "exchange" \/ Took(st, "getUserInfo")

\* C15: getUserInfo is called with the PKCE options iff a code challenge
\* method is configured: then with the codeChallenge and codeVerifier the
\* session holds, which are the ones /login stored for the request's state,
\* and otherwise with no option.
C15_PKCEForwarded ==
    \A r \in DOMAIN req :
        LET st == req[r]
        IN  AdapterInvoked(st) =>
                IF cfg.CodeChallengeMethod # ""
                THEN /\ st.opts = << <<"code_challenge", Value(st.sess, "codeChallenge")>>,
                                     <<"code_verifier", Value(st.sess, "codeVerifier")>> >>
                     /\ st.opts[1][2] = "challenge-" \o st.query.state
                     /\ st.opts[2][2] = "verifier-" \o st.query.state
                ELSE st.opts = << >>

\* C15 witness: a callback waiting for the IdP, called with the PKCE pair
\* of its state.
C15_Witness ==
    \E r \in DOMAIN req :
        /\ req[r].pc = "exchange"
        /\ cfg.CodeChallengeMethod = "S256"
        /\ req[r].query.state = Nonce(1)
        /\ req[r].opts = << <<"code_challenge", "challenge-1">>,
                            <<"code_verifier", "verifier-1">> >>

\* ------------------------------------------------------------------ the failed callback
\* C16: a callback that ends in 400, 403 or 500 leaves the pre-auth session
\* as it was: the step that ends it changes nothing in the store (state,
\* requestedURL, codeVerifier, codeChallenge, MaxAge), saves nothing, and
\* the session the handler holds is the one it read, not expired.
C16_FailedAttemptKeepsSession ==
    [][ \A r \in DOMAIN req :
          ( /\ AtAuthState(req[r]) /\ req[r].pc \in {"recv", "exchange"}
            /\ req'[r].pc = "done"
            /\ \E i \in 1..Len(req'[r].resp) :
                   req'[r].resp[i].status \in {400, 403, 500} )
          => /\ session' = session
             /\ req'[r].saved = "none"
             /\ req'[r].sess.MaxAge # ExpiredMaxAge
             /\ req[r].pc = "exchange" => req'[r].sess = req[r].sess
             /\ req[r].pc = "recv" => req'[r].sess \in {session, NewSession} ]_vars

\* C16 witness: a failed mint answered 500 with the session of /login, its
\* state, requested URL and PKCE pair, still in the store.
C16_Witness ==
    \E r \in DOMAIN req :
        /\ req[r].pc = "done" /\ AtAuthState(req[r])
        /\ Failed(req[r], "NewVPJWT") /\ Statuses(req[r]) = <<500>>
        /\ session = [Values |-> [state |-> Nonce(1),
                                  requestedURL |-> "https://app.example.com/x",
                                  codeVerifier |-> "verifier-1",
                                  codeChallenge |-> "challenge-1"],
                      MaxAge |-> SessionMaxAge]
        /\ req[r].sess = session

\* ------------------------------------------------------------------ the /auth entry
\* C17: CallbackHandler leaves the session alone, takes none of the steps of
\* AuthStateHandler (no state check, no IdP call, no authorization, no
\* token) and sets no cookie; without an error parameter and with a state
\* it answers 302 to /auth/<state>/ with the query it received, whatever
\* the session holds.
C17_CallbackHandlerFrame ==
    [][ \A r \in DOMAIN req :
          ( /\ req[r].pc = "recv" /\ req[r].path = "/auth"
            /\ req'[r].pc = "done" )
          => LET st == req'[r]
             IN  /\ session' = session
                 /\ st.sess = req[r].sess
                 /\ st.trace = << >>
                 /\ st.x = NoExchange /\ st.opts = << >>
                 /\ st.mint = "none" /\ st.saved = "none"
                 /\ st.cookie = << >>
                 /\ (st.query.error = "" /\ st.query.state # "")
                        => st.resp = << [status |-> 302,
                                         location |-> [path |-> "/auth/{state}/",
                                                       pathState |-> req[r].query.state,
                                                       query |-> req[r].query],
                                         msg |-> Msg("", << >>)] >> ]_vars

\* C17 witness: a callback with a state no login ever stored, redirected.
C17_Witness ==
    \E r \in DOMAIN req :
        /\ req[r].pc = "done" /\ req[r].path = "/auth"
        /\ logins = 0 /\ session = NewSession
        /\ req[r].query.state = Nil /\ req[r].query.error = ""
        /\ Statuses(req[r]) = <<302>>
        /\ req[r].resp[1].location.pathState = Nil
        /\ req[r].resp[1].location.query = req[r].query

\* ------------------------------------------------------------------ the callback without a login
\* C18: a request to /auth/{state}/ whose session holds no state is
\* answered 400 at the state check, whatever its state parameter, the empty
\* one included: it never waits for the IdP, and gets neither token nor
\* cookie.
C18_NoLoginRejected ==
    \A r \in DOMAIN req :
        LET st == req[r]
        IN  ( /\ AtAuthState(st) /\ st.pc \in {"exchange", "done"}
              /\ "state" \notin DOMAIN st.sess.Values )
            => /\ st.pc = "done"
               /\ Statuses(st) = <<400>>
               /\ ~Took(st, "getUserInfo") /\ st.x = NoExchange
               /\ st.mint = "none" /\ st.cookie = << >>

\* C18 witness: no login, a session that decodes, an empty state
\* parameter: 400 at the state check.
C18_Witness ==
    \E r \in DOMAIN req :
        /\ req[r].pc = "done" /\ AtAuthState(req[r])
        /\ logins = 0 /\ ~req[r].badCookie
        /\ req[r].query.state = ""
        /\ Failed(req[r], "state")
        /\ Statuses(req[r]) = <<400>>

====
